---- MODULE Spec2Model ----
(***************************************************************************)
(* Sound Bath Sanctuary: the AudioEngine of src/audio-engine.js as a state *)
(* machine.  Voices live in activeOscillators (a JS Map, kept here as the   *)
(* sequence of its entries in insertion order); the generators a trigger   *)
(* starts live in the audio graph and outlive their Map entry; the ambient *)
(* bed has its own source, gain and fade-out timers.  Times are in         *)
(* milliseconds, relative to the current instant.                          *)
(***************************************************************************)
EXTENDS Integers, Sequences, FiniteSets, TLC

VARIABLES
    audioContext,       \* this.audioContext: 0 = null, else the id of the context
    masterGain,         \* this.masterGain: 0 = null, else the context it belongs to
    reverbNode,         \* this.reverbNode: likewise
    analyser,           \* this.analyser: likewise
    isInitialized,      \* this.isInitialized
    ctxCounter,         \* number of AudioContext objects constructed so far
    contextState,       \* this.audioContext.state: "none" (no context), "suspended", "running"
    wired,              \* context whose reverb -> analyser -> master -> destination
                        \* chain is connected; 0 = none
    masterValue,        \* this.masterGain.gain.value, in thousandths; 0 with no master gain
    masterTarget,       \* the value the gain's automation approaches, in thousandths
    calls,              \* initialize() calls in flight: where each one is suspended
    playStyles,         \* app: the active style of each group of instruments
    probe,              \* the voice description last computed by the synthesis model
    activeOscillators,  \* this.activeOscillators: Map id -> data, in insertion order
    idCounter,          \* this.idCounter
    maxPolyphony,       \* this.maxPolyphony
    evict,              \* a call of enforcePolyphony() followed step by step: where
                        \* it stands in its loop
    generators,         \* audio graph: id -> time left of the generators started for it
    pendingEnded,       \* ids whose oscillators[0] has ended, 'ended' event not yet dispatched
    ambientSource,      \* this.ambientSource: "null", "created" (never started), "started"
    ambientGain,        \* this.ambientGain: "null", or the automation of its gain
    isAmbientPlaying,   \* this.isAmbientPlaying
    timers,             \* pending setTimeout callbacks of stopAmbient: time left, in order
    onlyTriggers,       \* history: every trigger so far admitted its voice, and no
                        \* completion callback or stopAll has run
    last                \* history: the call that made the last step, and how it ended

graphVars   == <<audioContext, masterGain, reverbNode, analyser, isInitialized, ctxCounter,
                 contextState, wired>>
volumeVars  == <<masterValue, masterTarget>>
engineVars  == <<graphVars, volumeVars>>
voiceVars   == <<activeOscillators, idCounter, generators, pendingEnded, onlyTriggers>>
ambientVars == <<ambientSource, ambientGain, isAmbientPlaying, timers>>
\* What the engine's synchronous operations never write.
otherVars   == <<maxPolyphony, evict, calls, playStyles, probe>>
vars == <<engineVars, voiceVars, ambientVars, otherVars, last>>

----------------------------------------------------------------------------
\* Bounds of the model.
MaxId     == 3    \* ids handed out in one run
MaxTimers == 2    \* fade-out timers pending at once
MaxCtx    == 2    \* AudioContext objects constructed in one run

\* Program constants (times in ms).
DefaultMaxPolyphony == 32
FadeTimeoutMs       == 2000
RhythmicMaxMs       == 1500
ChaosStopMs         == 2000
NoiseStopMs         == 500
InitialGain         == 700    \* masterGain.gain.value = 0.7, in thousandths
TimeConstantMs      == 100    \* setTargetAtTime(value, currentTime, 0.1)
DecayPerTick        == 7      \* 1000 * e^(-TickMs / TimeConstantMs) = 1000 * e^(-5)

\* The clock moves in steps of the shortest time any trigger schedules; every
\* other scheduled time is a multiple of it.
TickMs == NoiseStopMs

\* The duration argument of a trigger, in seconds.
Durations == {2}
Ms(seconds) == 1000 * seconds

Max2(a, b) == IF a >= b THEN a ELSE b
Min2(a, b) == IF a <= b THEN a ELSE b

RECURSIVE SetMax(_)
SetMax(S) == IF S = {} THEN 0
             ELSE LET x == CHOOSE y \in S : TRUE IN Max2(x, SetMax(S \ {x}))

Families == {"crystal", "tibetan", "gong", "didge", "panflute", "handpan"}

\* The style tags the UI can send for a family, and one tag no family defines.
StylesOf(type) ==
    CASE type = "crystal"  -> {"strike", "rim", "gentle"}
      [] type = "tibetan"  -> {"mallet", "singing", "water"}
      [] type = "gong"     -> {"soft", "crescendo", "crash"}
      [] type = "didge"    -> {"sustained", "rhythmic", "melodic"}
      [] type = "panflute" -> {"sustained", "rhythmic", "melodic"}
      [] type = "handpan"  -> {"finger", "palm", "ghost"}

StyleInputs(type) == StylesOf(type) \cup {"unknown"}

----------------------------------------------------------------------------
(***************************************************************************)
(* The generators each trigger creates and starts: name, whether the       *)
(* trigger records it in the voice's oscillators list, how many, and the   *)
(* offsets (ms from now) of its start() and stop() calls.                  *)
(***************************************************************************)
Gen(name, registered, count, start, stop) ==
    [name |-> name, registered |-> registered, count |-> count,
     start |-> start, stop |-> stop]

CrystalBowlGenerators(style, dur) ==
    LET n == IF style = "strike" THEN 6 ELSE IF style = "rim" THEN 5 ELSE 3
    IN  {Gen("osc", TRUE, n, 0, dur)}
        \cup (IF style = "rim" THEN {Gen("lfo", FALSE, 1, 0, dur)} ELSE {})

TibetanBowlGenerators(style, dur) ==
    LET n == IF style = "mallet" THEN 6 ELSE IF style = "singing" THEN 4 ELSE 3
    IN  {Gen("osc", TRUE, n, 0, dur)}
        \cup (IF style = "singing" THEN {Gen("lfo", FALSE, 1, 1500, dur)} ELSE {})
        \cup (IF style = "water"
              THEN {Gen("bubbleLfo", FALSE, n, 0, dur), Gen("pitchLfo", FALSE, n, 0, dur)}
              ELSE {})

GongGenerators(style, dur) ==
    LET n == IF style = "soft" THEN 12 ELSE IF style = "crescendo" THEN 18 ELSE 30
    IN  {Gen("osc", TRUE, n, 0, dur)}
        \cup (IF style = "crash" THEN {Gen("noiseSource", FALSE, 1, 0, NoiseStopMs)} ELSE {})
        \cup (IF style = "crescendo" THEN {Gen("shimmer", FALSE, 5, 2500, dur)} ELSE {})
        \cup (IF style \notin {"soft", "crescendo"}
              THEN {Gen("chaos", FALSE, n, 0, ChaosStopMs)} ELSE {})

DidgeridooGenerators(style, dur) ==
    {Gen("droneOsc", TRUE, 1, 0, dur), Gen("subOsc", FALSE, 1, 0, dur)}
    \cup (IF style = "sustained" THEN {Gen("breathLfo", FALSE, 1, 0, dur)}
          ELSE IF style = "rhythmic"
          THEN {Gen("rhythmLfo", FALSE, 1, 0, dur), Gen("accentLfo", FALSE, 1, 0, dur)}
          ELSE {Gen("pitchLfo", FALSE, 1, 0, dur)})

\* playPanFlute clamps the duration of the rhythmic style before using it.
PanFluteDuration(style, dur) == IF style = "rhythmic" THEN Min2(dur, RhythmicMaxMs) ELSE dur

PanFluteGenerators(style, dur) ==
    LET d == PanFluteDuration(style, dur)
        attack == IF style = "sustained" THEN 300 ELSE IF style = "rhythmic" THEN 20 ELSE 150
    IN  {Gen("osc", TRUE, 1, 0, d), Gen("osc2", FALSE, 1, 0, d), Gen("noise", FALSE, 1, 0, d)}
        \cup (IF style # "rhythmic" THEN {Gen("vibrato", FALSE, 1, attack, d)} ELSE {})

HandpanGenerators(style, dur) ==
    LET n == IF style = "finger" THEN 6 ELSE IF style = "palm" THEN 4 ELSE 3
    IN  {Gen("osc", TRUE, n, 0, dur)}

GeneratorsOf(type, style, dur) ==
    CASE type = "crystal"  -> CrystalBowlGenerators(style, dur)
      [] type = "tibetan"  -> TibetanBowlGenerators(style, dur)
      [] type = "gong"     -> GongGenerators(style, dur)
      [] type = "didge"    -> DidgeridooGenerators(style, dur)
      [] type = "panflute" -> PanFluteGenerators(style, dur)
      [] type = "handpan"  -> HandpanGenerators(style, dur)

\* Length of the oscillators list stored in the Map entry.
RegisteredCount(gens) ==
    LET r == CHOOSE g \in gens : g.registered IN r.count

\* Scheduled stop of the registered oscillators and the latest scheduled stop
\* of the generators the Map entry does not list.
RegisteredStop(gens) == SetMax({g.stop : g \in {h \in gens : h.registered}})
UnregisteredStop(gens) == SetMax({g.stop : g \in {h \in gens : ~h.registered}})

\* The generators that are noise buffer sources (createBufferSource), and the
\* oscillators that modulate a parameter of another node; the remaining
\* generators are the oscillators of the voice's signal path.
BufferSources == {"noiseSource", "noise"}
Modulators == {"lfo", "bubbleLfo", "pitchLfo", "shimmer", "chaos",
               "breathLfo", "rhythmLfo", "accentLfo", "vibrato"}

RECURSIVE SumCounts(_)
SumCounts(gens) ==
    IF gens = {} THEN 0
    ELSE LET g == CHOOSE h \in gens : TRUE IN g.count + SumCounts(gens \ {g})

\* Number of signal-path oscillators the trigger creates for the voice.
OscillatorCount(gens) ==
    SumCounts({g \in gens : g.name \notin BufferSources \cup Modulators})

----------------------------------------------------------------------------
(***************************************************************************)
(* The automation curves each trigger schedules: the parameter automated,  *)
(* the node, the times (ms from now) of the events in the order of the     *)
(* calls, and for a gain curve the value of the last event in thousandths  *)
(* (0.001 is 1); for a frequency curve the last value is kept as 1.        *)
(***************************************************************************)
Curve(param, node, times, final) ==
    [param |-> param, node |-> node, times |-> times, final |-> final]

\* The default value of each trigger's duration parameter, in seconds.
DefaultDuration(type) ==
    CASE type = "crystal"  -> 8
      [] type = "tibetan"  -> 10
      [] type = "gong"     -> 15
      [] type = "didge"    -> 8
      [] type = "panflute" -> 4
      [] type = "handpan"  -> 5

CrystalBowlCurves(style, dur) ==
    LET attack  == IF style = "strike" THEN 3 ELSE IF style = "rim" THEN 2500 ELSE 800
        sustain == IF style = "strike" THEN (dur * 15) \div 100
                   ELSE IF style = "rim" THEN (dur * 50) \div 100 ELSE (dur * 30) \div 100
        release == IF style = "strike" THEN (dur * 85) \div 100
                   ELSE IF style = "rim" THEN (dur * 30) \div 100 ELSE (dur * 50) \div 100
    IN  {Curve("gain", "gain", <<0, attack, attack + sustain, attack + sustain + release>>, 1)}

TibetanBowlCurves(style, dur) ==
    LET attack == IF style = "mallet" THEN 2 ELSE IF style = "singing" THEN 3000 ELSE 500
    IN  IF style = "singing"
        THEN {Curve("gain", "gain",
                    <<0, attack \div 2, attack, attack + (dur * 30) \div 100, dur>>, 1)}
        ELSE {Curve("gain", "gain", <<0, attack, dur>>, 1)}

GongCurves(style, dur) ==
    LET attack == IF style = "soft" THEN 800 ELSE IF style = "crescendo" THEN 5000 ELSE 1
    IN  (IF style = "soft"
         THEN {Curve("gain", "gain", <<0, attack, attack + dur \div 10, dur>>, 1)}
         ELSE IF style = "crescendo"
         THEN {Curve("gain", "gain",
                     <<0, (attack * 3) \div 10, (attack * 6) \div 10, attack,
                       attack + 1000, dur>>, 1),
               Curve("filter", "filter", <<0, attack, attack + 2000, dur>>, 1)}
         ELSE {Curve("gain", "gain", <<0, attack, 80, 300, 1500, dur>>, 1),
               Curve("gain", "chaosGain", <<0, 500, ChaosStopMs>>, 1)})
        \cup (IF style = "crash"
              THEN {Curve("filter", "filter", <<0, 300, 2000, dur>>, 1),
                    Curve("gain", "noiseGain", <<0, 400>>, 1)}
              ELSE {})

DidgeridooCurves(style, dur) ==
    LET attack == IF style = "sustained" THEN 500 ELSE IF style = "rhythmic" THEN 100 ELSE 300
        hold   == IF style = "sustained" THEN 800 ELSE IF style = "rhythmic" THEN 300 ELSE 500
    IN  {Curve("gain", "masterGain", <<0, attack, dur - hold, dur>>, 0)}
        \cup (IF style \notin {"sustained", "rhythmic"}
              THEN {Curve("frequency", f,
                          <<0, dur \div 4, dur \div 2, (dur * 3) \div 4, dur>>, 1)
                       : f \in {"formant1", "formant2"}}
              ELSE {})

PanFluteCurves(style, dur) ==
    LET d       == PanFluteDuration(style, dur)
        attack  == IF style = "sustained" THEN 300 ELSE IF style = "rhythmic" THEN 20 ELSE 150
        release == IF style = "sustained" THEN 500 ELSE IF style = "rhythmic" THEN 300 ELSE 400
    IN  IF style = "sustained"
        THEN {Curve("gain", "masterGain", <<0, attack, d - release, d>>, 0)}
        ELSE IF style = "rhythmic"
        THEN {Curve("gain", "masterGain", <<0, attack, 100, d>>, 1),
              Curve("gain", "noiseGain", <<0, 80>>, 40)}
        ELSE {Curve("gain", "masterGain",
                    <<0, attack, (d * 4) \div 10, (d * 7) \div 10, d>>, 0),
              Curve("frequency", "osc", <<0, attack, d \div 2, d>>, 1)}

HandpanCurves(style, dur) ==
    LET adjustedDuration == IF style = "finger" THEN dur
                            ELSE IF style = "palm" THEN (dur * 10) \div 13
                            ELSE (dur * 10) \div 25
    IN  IF style = "finger"
        THEN {Curve("gain", "gain", <<0, 3, 53, (adjustedDuration * 3) \div 10, dur>>, 1)}
        ELSE IF style = "palm"
        THEN {Curve("gain", "gain", <<0, 8, 30, 150, adjustedDuration>>, 1),
              Curve("filter", "filter", <<0, 100, adjustedDuration>>, 1)}
        ELSE {Curve("gain", "gain", <<0, 1, 50, adjustedDuration>>, 1)}

CurvesOf(type, style, dur) ==
    CASE type = "crystal"  -> CrystalBowlCurves(style, dur)
      [] type = "tibetan"  -> TibetanBowlCurves(style, dur)
      [] type = "gong"     -> GongCurves(style, dur)
      [] type = "didge"    -> DidgeridooCurves(style, dur)
      [] type = "panflute" -> PanFluteCurves(style, dur)
      [] type = "handpan"  -> HandpanCurves(style, dur)

----------------------------------------------------------------------------
(***************************************************************************)
(* The automation calls with their values: for each automated parameter,   *)
(* and each partial where there is one per partial, the value the          *)
(* parameter has before the calls and the events in the order of the       *)
(* calls.  Gains are in millionths, frequencies in thousandths of a Hz,    *)
(* times in ms from now.                                                   *)
(***************************************************************************)
\* exponentialRampToValueAtTime(0.001, ...): the floor, in millionths.
RampFloor == 1000
\* The value of a gain parameter that was never written: 1.
UnitGain == 1000000

\* The frequency argument of a trigger, in Hz, and the outcomes of
\* Math.random() in thousandths.
Frequencies == {1, 440}
Randoms == {0, 999}

Ev(kind, value, time) == [kind |-> kind, value |-> value, time |-> time]
SetValueAtTime(value, time) == Ev("set", value, time)
LinearRampTo(value, time) == Ev("linear", value, time)
ExponentialRampTo(value, time) == Ev("exp", value, time)

Sched(node, index, initial, events) ==
    [node |-> node, index |-> index, initial |-> initial, events |-> events]

CrystalBowlSchedules(style, dur, frequency, rand) ==
    LET harmonicAmplitudes ==
            IF style = "strike" THEN <<1000, 500, 350, 200, 100, 50>>
            ELSE IF style = "rim" THEN <<1000, 700, 500, 300, 150>>
            ELSE <<1000, 150, 50>>
        peakAmp == IF style = "strike" THEN 180 ELSE IF style = "rim" THEN 120 ELSE 80
        attack  == IF style = "strike" THEN 3 ELSE IF style = "rim" THEN 2500 ELSE 800
        sustain == IF style = "strike" THEN (dur * 15) \div 100
                   ELSE IF style = "rim" THEN (dur * 50) \div 100 ELSE (dur * 30) \div 100
        release == IF style = "strike" THEN (dur * 85) \div 100
                   ELSE IF style = "rim" THEN (dur * 30) \div 100 ELSE (dur * 50) \div 100
    IN  {LET amplitude == harmonicAmplitudes[i] * peakAmp
         IN  Sched("gain", i, 0,
                   <<SetValueAtTime(0, 0),
                     LinearRampTo(amplitude, attack),
                     SetValueAtTime(amplitude, attack + sustain),
                     ExponentialRampTo(RampFloor, attack + sustain + release)>>)
         : i \in 1..Len(harmonicAmplitudes)}

TibetanBowlSchedules(style, dur, frequency, rand) ==
    LET amplitudes ==
            IF style = "mallet" THEN <<1000, 600, 350, 200, 100, 50>>
            ELSE IF style = "singing" THEN <<1000, 800, 400, 150>>
            ELSE <<1000, 400, 150>>
        peakAmp == IF style = "mallet" THEN 140 ELSE IF style = "singing" THEN 100 ELSE 80
        attack  == IF style = "mallet" THEN 2 ELSE IF style = "singing" THEN 3000 ELSE 500
    IN  {LET amp == amplitudes[i] * peakAmp
         IN  IF style = "singing"
             THEN Sched("gain", i, 0,
                        <<SetValueAtTime(0, 0),
                          LinearRampTo((amp * 3) \div 10, attack \div 2),
                          LinearRampTo(amp, attack),
                          SetValueAtTime(amp, attack + (dur * 30) \div 100),
                          ExponentialRampTo(RampFloor, dur)>>)
             ELSE Sched("gain", i, 0,
                        <<SetValueAtTime(0, 0),
                          LinearRampTo(amp, attack),
                          ExponentialRampTo(RampFloor, dur)>>)
         : i \in 1..Len(amplitudes)}

GongSchedules(style, dur, baseFreq, rand) ==
    LET numPartials == IF style = "soft" THEN 12 ELSE IF style = "crescendo" THEN 18 ELSE 30
        attack == IF style = "soft" THEN 800 ELSE IF style = "crescendo" THEN 5000 ELSE 1
        peak == IF style = "soft" THEN 70000 ELSE IF style = "crescendo" THEN 120000 ELSE 250000
        filterFreq == IF style = "soft" THEN 1500000
                      ELSE IF style = "crescendo" THEN 4000000 ELSE 12000000
        partialSpread == IF style = "soft" THEN 500 ELSE IF style = "crescendo" THEN 600 ELSE 900
        \* amp = peak / (1 + i * 0.2)
        amp(i) == (peak * 5) \div (5 + i)
        hitAmp(i) == (amp(i) * 3) \div 2
        \* freq = baseFreq * (1 + i * partialSpread + Math.random() * 0.3)
        freq(i) == baseFreq * (1000 + i * partialSpread + (rand * 3) \div 10)
    IN  {IF style = "soft"
         THEN Sched("gain", i, 0,
                    <<SetValueAtTime(0, 0),
                      LinearRampTo(amp(i), attack),
                      SetValueAtTime(amp(i), attack + dur \div 10),
                      ExponentialRampTo(RampFloor, dur)>>)
         ELSE IF style = "crescendo"
         THEN Sched("gain", i, 0,
                    <<SetValueAtTime(0, 0),
                      LinearRampTo(amp(i) \div 5, (attack * 3) \div 10),
                      LinearRampTo(amp(i) \div 2, (attack * 6) \div 10),
                      LinearRampTo(amp(i), attack),
                      SetValueAtTime(amp(i), attack + 1000),
                      ExponentialRampTo(RampFloor, dur)>>)
         ELSE Sched("gain", i, 0,
                    <<SetValueAtTime(0, 0),
                      LinearRampTo(hitAmp(i), attack),
                      ExponentialRampTo((hitAmp(i) * 4) \div 10, 80),
                      ExponentialRampTo((hitAmp(i) * 15) \div 100, 300),
                      ExponentialRampTo((hitAmp(i) * 5) \div 100, 1500),
                      ExponentialRampTo(RampFloor, dur)>>)
         : i \in 0..(numPartials - 1)}
        \cup (IF style \notin {"soft", "crescendo"}
              THEN {Sched("chaosGain", i, UnitGain,
                          <<SetValueAtTime(freq(i) * 30, 0),
                            ExponentialRampTo(freq(i) * 5, 500),
                            ExponentialRampTo(RampFloor, ChaosStopMs)>>)
                    : i \in 0..(numPartials - 1)}
              ELSE {})
        \cup (IF style = "crescendo"
              THEN {Sched("filter", 0, filterFreq,
                          <<SetValueAtTime(800000, 0),
                            LinearRampTo(filterFreq, attack),
                            SetValueAtTime(filterFreq, attack + 2000),
                            ExponentialRampTo(600000, dur)>>)}
              ELSE {})
        \cup (IF style = "crash"
              THEN {Sched("filter", 0, filterFreq,
                          <<SetValueAtTime(filterFreq, 0),
                            ExponentialRampTo(3000000, 300),
                            ExponentialRampTo(1200000, 2000),
                            ExponentialRampTo(400000, dur)>>),
                    Sched("noiseGain", 0, UnitGain,
                          <<SetValueAtTime(350000, 0),
                            ExponentialRampTo(RampFloor, 400)>>)}
              ELSE {})

DidgeridooSchedules(style, dur, frequency, rand) ==
    LET attack == IF style = "sustained" THEN 500 ELSE IF style = "rhythmic" THEN 100 ELSE 300
        hold   == IF style = "sustained" THEN 800 ELSE IF style = "rhythmic" THEN 300 ELSE 500
        level  == IF style = "sustained" THEN 200000
                  ELSE IF style = "rhythmic" THEN 150000 ELSE 180000
    IN  {Sched("masterGain", 0, UnitGain,
               <<SetValueAtTime(0, 0),
                 LinearRampTo(level, attack),
                 SetValueAtTime(level, dur - hold),
                 LinearRampTo(0, dur)>>)}
        \cup (IF style \notin {"sustained", "rhythmic"}
              THEN {Sched("formant1", 0, 250000,
                          <<SetValueAtTime(200000, 0),
                            LinearRampTo(350000, dur \div 4),
                            LinearRampTo(180000, dur \div 2),
                            LinearRampTo(280000, (dur * 3) \div 4),
                            LinearRampTo(200000, dur)>>),
                    Sched("formant2", 0, 1000000,
                          <<SetValueAtTime(800000, 0),
                            LinearRampTo(1200000, dur \div 4),
                            LinearRampTo(700000, dur \div 2),
                            LinearRampTo(900000, (dur * 3) \div 4),
                            LinearRampTo(800000, dur)>>)}
              ELSE {})

PanFluteSchedules(style, dur, frequency, rand) ==
    LET d       == PanFluteDuration(style, dur)
        attack  == IF style = "sustained" THEN 300 ELSE IF style = "rhythmic" THEN 20 ELSE 150
        release == IF style = "sustained" THEN 500 ELSE IF style = "rhythmic" THEN 300 ELSE 400
        noiseLevel == IF style = "sustained" THEN 15000
                      ELSE IF style = "rhythmic" THEN 40000 ELSE 20000
    IN  IF style = "sustained"
        THEN {Sched("masterGain", 0, UnitGain,
                    <<SetValueAtTime(0, 0),
                      LinearRampTo(UnitGain, attack),
                      SetValueAtTime(UnitGain, d - release),
                      LinearRampTo(0, d)>>)}
        ELSE IF style = "rhythmic"
        THEN {Sched("masterGain", 0, UnitGain,
                    <<SetValueAtTime(0, 0),
                      LinearRampTo(1200000, attack),
                      ExponentialRampTo(600000, 100),
                      ExponentialRampTo(RampFloor, d)>>),
              Sched("noiseGain", 0, noiseLevel,
                    <<SetValueAtTime(noiseLevel * 3, 0),
                      ExponentialRampTo(noiseLevel, 80)>>)}
        ELSE {Sched("masterGain", 0, UnitGain,
                    <<SetValueAtTime(0, 0),
                      LinearRampTo(700000, attack),
                      LinearRampTo(UnitGain, (d * 4) \div 10),
                      LinearRampTo(800000, (d * 7) \div 10),
                      LinearRampTo(0, d)>>),
              Sched("osc", 0, frequency * 1000,
                    <<SetValueAtTime(frequency * 995, 0),
                      LinearRampTo(frequency * 1000, attack),
                      LinearRampTo(frequency * 1003, d \div 2),
                      LinearRampTo(frequency * 1000, d)>>)}

HandpanSchedules(style, dur, frequency, rand) ==
    LET amplitudes ==
            IF style = "finger" THEN <<1000, 600, 350, 180, 80, 30>>
            ELSE IF style = "palm" THEN <<1000, 800, 300, 100>>
            ELSE <<1000, 400, 150>>
        peakAmp == IF style = "finger" THEN 120 ELSE IF style = "palm" THEN 180 ELSE 40
        attack == IF style = "finger" THEN 3 ELSE IF style = "palm" THEN 8 ELSE 1
        filterFreq == IF style = "finger" THEN 6000000
                      ELSE IF style = "palm" THEN 2000000 ELSE 4000000
        adjustedDuration == IF style = "finger" THEN dur
                            ELSE IF style = "palm" THEN (dur * 10) \div 13
                            ELSE (dur * 10) \div 25
    IN  {LET amp == amplitudes[i] * peakAmp
         IN  IF style = "finger"
             THEN Sched("gain", i, 0,
                        <<SetValueAtTime(0, 0),
                          LinearRampTo(amp, attack),
                          SetValueAtTime(amp, attack + 50),
                          ExponentialRampTo(amp \div 2, (adjustedDuration * 3) \div 10),
                          ExponentialRampTo(RampFloor, dur)>>)
             ELSE IF style = "palm"
             THEN Sched("gain", i, 0,
                        <<SetValueAtTime(0, 0),
                          LinearRampTo((amp * 12) \div 10, attack),
                          ExponentialRampTo((amp * 6) \div 10, 30),
                          ExponentialRampTo((amp * 3) \div 10, 150),
                          ExponentialRampTo(RampFloor, adjustedDuration)>>)
             ELSE Sched("gain", i, 0,
                        <<SetValueAtTime(0, 0),
                          LinearRampTo(amp, attack),
                          ExponentialRampTo((amp * 3) \div 10, 50),
                          ExponentialRampTo(RampFloor, adjustedDuration)>>)
         : i \in 1..Len(amplitudes)}
        \cup (IF style = "palm"
              THEN {Sched("filter", 0, filterFreq,
                          <<SetValueAtTime((filterFreq * 15) \div 10, 0),
                            ExponentialRampTo(filterFreq \div 2, 100),
                            ExponentialRampTo((filterFreq * 3) \div 10, adjustedDuration)>>)}
              ELSE {})

SchedulesOf(type, style, dur, frequency, rand) ==
    CASE type = "crystal"  -> CrystalBowlSchedules(style, dur, frequency, rand)
      [] type = "tibetan"  -> TibetanBowlSchedules(style, dur, frequency, rand)
      [] type = "gong"     -> GongSchedules(style, dur, frequency, rand)
      [] type = "didge"    -> DidgeridooSchedules(style, dur, frequency, rand)
      [] type = "panflute" -> PanFluteSchedules(style, dur, frequency, rand)
      [] type = "handpan"  -> HandpanSchedules(style, dur, frequency, rand)

\* The event list of a parameter is kept ordered by time, an event going after
\* the events already scheduled for the same time.
Precedes(ev, j, k) ==
    \/ ev[j].time < ev[k].time
    \/ ev[j].time = ev[k].time /\ j < k

\* The value a ramp starts from: the value of the event before it on the
\* parameter's timeline, or the parameter's own value when it is the first.
StartValue(s, k) ==
    LET ev == s.events
        before == {j \in DOMAIN ev : Precedes(ev, j, k)}
    IN  IF before = {} THEN s.initial
        ELSE ev[CHOOSE j \in before :
                    \A i \in before : i = j \/ Precedes(ev, i, j)].value

\* The exponential ramps of a set of schedules: where each starts and ends.
RampsOf(scheds) ==
    UNION {{[node |-> s.node, index |-> s.index,
             from |-> StartValue(s, k), to |-> s.events[k].value]
            : k \in {j \in DOMAIN s.events : s.events[j].kind = "exp"}}
           : s \in scheds}

----------------------------------------------------------------------------
\* How a call ended: its return value, or the exception that left it (err),
\* whether it caught one inside, whether it created audio nodes.  A call that
\* throws ends with "InvalidStateError" when the exception comes from stop() on
\* an ended oscillator and with "GraphError" when it comes from reading
\* currentTime of a null context or from connect() to a null or foreign node.  For toggleAmbient the
\* call made just before it is kept as well, for setMasterVolume the call made
\* just before it and the target it found.
Call(op, ret, err, caught, created) ==
    [op |-> op, ret |-> ret, err |-> err, caught |-> caught, created |-> created,
     prev |-> IF op = "toggleAmbient" THEN <<last.op, last.ret>>
              ELSE IF op = "setMasterVolume" THEN <<last.op, masterTarget>>
              ELSE <<>>]

Caps == {1, 2, DefaultMaxPolyphony}

\* The click handlers that may each have an initialize() call in flight.
Callers == {1, 2}
NoCall == [pc |-> "idle", ctx |-> 0, conv |-> 0, built |-> FALSE]

\* No enforcePolyphony() call is being followed.
NoEviction == [pc |-> "idle", legacy |-> FALSE]

\* const playStyles = { crystal: 'strike', tibetan: 'mallet', ... }
Groups == {"crystal", "tibetan", "gong", "wind", "handpan"}
DefaultPlayStyles ==
    [g \in Groups |->
        CASE g = "crystal" -> "strike"
          [] g = "tibetan" -> "mallet"
          [] g = "gong"    -> "soft"
          [] g = "wind"    -> "sustained"
          [] g = "handpan" -> "finger"]

NoProbe == [type |-> "none", style |-> "none", duration |-> 0, frequency |-> 0,
            generators |-> {}, curves |-> {}, ramps |-> {}]

\* The engine as the constructor leaves it.  The constructor sets maxPolyphony
\* to DefaultMaxPolyphony; the field is checked for the small caps as well.
Init ==
    /\ audioContext = 0
    /\ masterGain = 0
    /\ analyser = 0
    /\ isInitialized = FALSE
    /\ activeOscillators = <<>>
    /\ reverbNode = 0
    /\ idCounter = 0
    /\ maxPolyphony \in Caps
    /\ evict = NoEviction
    /\ ambientSource = "null"
    /\ ambientGain = "null"
    /\ isAmbientPlaying = FALSE
    /\ ctxCounter = 0
    /\ contextState = "none"
    /\ wired = 0
    /\ masterValue = 0
    /\ masterTarget = 0
    /\ calls = [p \in Callers |-> NoCall]
    /\ playStyles = DefaultPlayStyles
    /\ probe = NoProbe
    /\ generators = <<>>
    /\ pendingEnded = {}
    /\ timers = <<>>
    /\ onlyTriggers = TRUE
    /\ last = [op |-> "constructor", ret |-> "void", err |-> FALSE, caught |-> FALSE,
               created |-> FALSE, prev |-> <<>>]

----------------------------------------------------------------------------
\* initialize(): the step at which the platform fails, if any.
InitFailures == {"context", "resume", "reverb", "connect"}

\* Variant: the early return is never taken.
NeverInitialized == FALSE

\* if (this.isInitialized) return true;
AlreadyInitialized == isInitialized

\* Variant: the error of the failing step leaves initialize().
InitializeOutcomeNoCatch(failAt) ==
    [ret |-> IF failAt = "none" THEN "true" ELSE "InitError", err |-> failAt # "none"]

\* try { ...; return true } catch (error) { console.error(...); return false }
InitializeOutcome(failAt) ==
    [ret |-> IF failAt = "none" THEN "true" ELSE "false", err |-> FALSE]

\* initialize() run to completion with no other call in between (the caller
\* awaits it).
Initialize(failAt) ==
    IF AlreadyInitialized
    THEN /\ last' = Call("initialize", "true", FALSE, FALSE, FALSE)
         /\ UNCHANGED <<engineVars, voiceVars, ambientVars, otherVars>>
    ELSE IF failAt = "context"
    THEN /\ last' = Call("initialize", InitializeOutcome(failAt).ret,
                         InitializeOutcome(failAt).err, TRUE, FALSE)
         /\ UNCHANGED <<engineVars, voiceVars, ambientVars, otherVars>>
    ELSE /\ ctxCounter < MaxCtx
         /\ LET ctx == ctxCounter + 1 IN
            /\ ctxCounter' = ctx
            /\ audioContext' = ctx
            /\ masterGain' = IF failAt = "resume" THEN masterGain ELSE ctx
            /\ reverbNode' = IF failAt \in {"resume", "reverb"} THEN reverbNode ELSE ctx
            /\ analyser' = IF failAt \in {"resume", "reverb"} THEN analyser ELSE ctx
            /\ isInitialized' = (failAt = "none")
            /\ contextState' = IF failAt = "resume" THEN "suspended" ELSE "running"
            /\ masterValue' = IF failAt = "resume" THEN masterValue ELSE InitialGain
            /\ masterTarget' = IF failAt = "resume" THEN masterTarget ELSE InitialGain
            /\ wired' = IF failAt = "none" THEN ctx ELSE wired
            /\ last' = Call("initialize", InitializeOutcome(failAt).ret,
                            InitializeOutcome(failAt).err, failAt # "none",
                            failAt # "resume")
         /\ UNCHANGED <<voiceVars, ambientVars, otherVars>>

----------------------------------------------------------------------------
\* The Map: entries in insertion order.
\* The Map is kept as the sequence of its keys in insertion order; the value
\* stored under a key (oscillators, gains, masterGain) is the registered part
\* of generators[key].
MapHas(map, id) == \E i \in DOMAIN map : map[i] = id
\* Variant: removal by position, where an absent key takes the last entry.
MapDeleteSplice(map, id) ==
    IF MapHas(map, id) THEN SelectSeq(map, LAMBDA k : k # id)
    ELSE SubSeq(map, 1, Len(map) - 1)
MapDelete(map, id) == SelectSeq(map, LAMBDA k : k # id)
\* Variant: a new key goes in front of the others.
MapSetFront(map, id) == IF MapHas(map, id) THEN map ELSE <<id>> \o map
MapSet(map, id) == IF MapHas(map, id) THEN map ELSE Append(map, id)

\* generateId: the counter is incremented, then used.  The id is the type,
\* an underscore and the counter; the counter alone tells ids apart and is
\* what the model keeps.
\* Variant: the number is taken from the size of the Map.
generateIdFromSize(type) == Len(activeOscillators) + 1

generateId(type) == idCounter + 1

\* Records of the audio graph that nothing refers to any more are dropped.
Sweep(gens, pend, map) ==
    LET keep == {id \in DOMAIN gens :
                    \/ gens[id].reg > 0
                    \/ gens[id].aux > 0
                    \/ id \in pend
                    \/ MapHas(map, id)}
    IN  [id \in keep |-> gens[id]]

\* osc.stop() on an oscillator that has already ended: a no-op on current
\* platforms, an InvalidStateError on older ones (legacy).
StopThrows(gens, id, legacy) == legacy /\ gens[id].reg = 0

\* Variant: the stop loop without its try/catch.
ForceStopNoCatch(id, gens, pend, legacy) ==
    [gens    |-> [gens EXCEPT ![id].reg = 0, ![id].forced = TRUE],
     pend    |-> IF gens[id].reg > 0 /\ gens[id].cleanup THEN pend \cup {id} ELSE pend,
     caught  |-> FALSE,
     escaped |-> StopThrows(gens, id, legacy)]

\* try { data.oscillators.forEach(osc => osc.stop()) } catch (e) {}
\* Oscillators that were running end now; oscillators[0] dispatches 'ended' to
\* the handler scheduleCleanup attached.
ForceStop(id, gens, pend, legacy) ==
    [gens    |-> [gens EXCEPT ![id].reg = 0, ![id].forced = TRUE],
     pend    |-> IF gens[id].reg > 0 /\ gens[id].cleanup THEN pend \cup {id} ELSE pend,
     caught  |-> StopThrows(gens, id, legacy),
     escaped |-> FALSE]

\* Variant: the loop runs only once the cap is exceeded.
OverCapacity(size) == size > maxPolyphony

\* Variant: the size is compared with zero.
AtCapacityOfZero(size) == size >= 0

\* The condition of the eviction loop.
AtCapacity(size) == size >= maxPolyphony

\* Variant: the most recent key is taken.
NewestId(map) == map[Len(map)]

\* this.activeOscillators.keys().next().value
OldestId(map) == map[1]

RECURSIVE enforcePolyphony(_, _, _, _)
enforcePolyphony(map, gens, pend, legacy) ==
    IF AtCapacity(Len(map)) /\ Len(map) > 0
    THEN LET oldestId == OldestId(map)
             r == ForceStop(oldestId, gens, pend, legacy)
         IN  IF r.escaped
             THEN [map |-> map, gens |-> r.gens, pend |-> r.pend,
                   caught |-> FALSE, escaped |-> TRUE]
             ELSE LET rest == enforcePolyphony(MapDelete(map, oldestId),
                                               r.gens, r.pend, legacy)
                  IN  [rest EXCEPT !.caught = r.caught \/ @]
    ELSE [map |-> map, gens |-> gens, pend |-> pend, caught |-> FALSE, escaped |-> FALSE]

(***************************************************************************)
(* enforcePolyphony() one iteration at a time.  The call runs on the one   *)
(* JavaScript thread: while it is in its loop no other handler runs.       *)
(***************************************************************************)
EnforceBegin(legacy) ==
    /\ evict.pc = "idle"
    /\ evict' = [pc |-> "loop", legacy |-> legacy]
    /\ last' = Call("enforcePolyphony.begin", "pending", FALSE, FALSE, FALSE)
    /\ UNCHANGED <<engineVars, voiceVars, ambientVars, maxPolyphony, calls, playStyles,
                   probe>>

\* The loop condition holds: the body.  keys().next().value is undefined on
\* an empty Map, get(undefined) is undefined, and `if (oldest)` skips the
\* stop and the delete.
EnforceIterate ==
    /\ evict.pc = "loop"
    /\ AtCapacity(Len(activeOscillators))
    /\ IF activeOscillators = <<>>
       THEN UNCHANGED <<activeOscillators, generators, pendingEnded, onlyTriggers, last>>
       ELSE LET oldestId == OldestId(activeOscillators)
                r == ForceStop(oldestId, generators, pendingEnded, evict.legacy)
            IN  /\ activeOscillators' = MapDelete(activeOscillators, oldestId)
                /\ pendingEnded' = r.pend
                /\ generators' = Sweep(r.gens, r.pend, activeOscillators')
                /\ onlyTriggers' = FALSE
                /\ last' = Call("enforcePolyphony.loop", "pending", FALSE, r.caught, FALSE)
    /\ UNCHANGED <<engineVars, ambientVars, idCounter, otherVars>>

\* The loop condition fails: the call returns.
EnforceExit ==
    /\ evict.pc = "loop"
    /\ ~AtCapacity(Len(activeOscillators))
    /\ evict' = NoEviction
    /\ last' = Call("enforcePolyphony", "void", FALSE, FALSE, FALSE)
    /\ UNCHANGED <<engineVars, voiceVars, ambientVars, maxPolyphony, calls, playStyles,
                   probe>>

EnforceBeginStep == \E legacy \in BOOLEAN : EnforceBegin(legacy)

\* Variant: no handler is attached.
scheduleCleanupNever(gen) == gen

\* scheduleCleanup(id, oscillator): the handler is attached to the oscillator.
scheduleCleanup(gen) == [gen EXCEPT !.cleanup = TRUE]

\* The nodes a trigger creates can be connected to this.reverbNode.
CanConnect == audioContext # 0 /\ reverbNode = audioContext

\* The body shared by the six triggers: enforcePolyphony, generateId, build,
\* start and schedule the stop of the generators, register, scheduleCleanup.
Play(op, type, gens, legacy) ==
    /\ LET ep == enforcePolyphony(activeOscillators, generators, pendingEnded, legacy)
           id == generateId(type)
       IN  IF ep.escaped
           THEN /\ activeOscillators' = ep.map
                /\ generators' = Sweep(ep.gens, ep.pend, ep.map)
                /\ pendingEnded' = ep.pend
                /\ idCounter' = idCounter
                /\ last' = Call(op, "InvalidStateError", TRUE, FALSE, FALSE)
           ELSE IF ~CanConnect
           THEN /\ activeOscillators' = ep.map
                /\ generators' = Sweep(ep.gens, ep.pend, ep.map)
                /\ pendingEnded' = ep.pend
                /\ idCounter' = idCounter + 1
                /\ last' = Call(op, "GraphError", TRUE, ep.caught, audioContext # 0)
           ELSE LET map == MapSet(ep.map, id)
                    started == scheduleCleanup([reg |-> RegisteredStop(gens),
                                                aux |-> UnregisteredStop(gens),
                                                forced |-> FALSE,
                                                cleanup |-> FALSE])
                    graph == [i \in DOMAIN ep.gens \cup {id} |->
                                 IF i = id THEN started ELSE ep.gens[i]]
                IN  /\ activeOscillators' = map
                    /\ generators' = Sweep(graph, ep.pend, map)
                    /\ pendingEnded' = ep.pend
                    /\ idCounter' = idCounter + 1
                    /\ last' = Call(op, "id", FALSE, ep.caught, TRUE)
    /\ onlyTriggers' = (onlyTriggers /\ ~last'.err)
    /\ UNCHANGED <<engineVars, ambientVars, otherVars>>

\* A trigger called with a frequency the nodes reject (NaN, Infinity): the
\* assignment osc.frequency.value = frequency * ratio of the first oscillator
\* throws a TypeError, after enforcePolyphony and generateId have run and the
\* voice's gain and filter were created, and before anything is started or
\* registered.
PlayRejected(op, type, legacy) ==
    /\ LET ep == enforcePolyphony(activeOscillators, generators, pendingEnded, legacy)
       IN  /\ ~ep.escaped
           /\ activeOscillators' = ep.map
           /\ generators' = Sweep(ep.gens, ep.pend, ep.map)
           /\ pendingEnded' = ep.pend
           /\ idCounter' = idCounter + 1
           /\ last' = IF CanConnect
                      THEN Call(op, "TypeError", TRUE, ep.caught, TRUE)
                      ELSE Call(op, "GraphError", TRUE, ep.caught, audioContext # 0)
    /\ onlyTriggers' = FALSE
    /\ UNCHANGED <<engineVars, ambientVars, otherVars>>

playHandpanRejected(legacy) ==
    /\ idCounter < MaxId
    /\ PlayRejected("playHandpan", "handpan", legacy)

playCrystalBowl(style, duration, legacy) ==
    /\ idCounter < MaxId
    /\ Play("playCrystalBowl", "crystal", CrystalBowlGenerators(style, Ms(duration)), legacy)
playTibetanBowl(style, duration, legacy) ==
    /\ idCounter < MaxId
    /\ Play("playTibetanBowl", "tibetan", TibetanBowlGenerators(style, Ms(duration)), legacy)
playGong(style, duration, legacy) ==
    /\ idCounter < MaxId
    /\ Play("playGong", "gong", GongGenerators(style, Ms(duration)), legacy)
playDidgeridoo(style, duration, legacy) ==
    /\ idCounter < MaxId
    /\ Play("playDidgeridoo", "didge", DidgeridooGenerators(style, Ms(duration)), legacy)
playPanFlute(style, duration, legacy) ==
    /\ idCounter < MaxId
    /\ Play("playPanFlute", "panflute", PanFluteGenerators(style, Ms(duration)), legacy)
playHandpan(style, duration, legacy) ==
    /\ idCounter < MaxId
    /\ Play("playHandpan", "handpan", HandpanGenerators(style, Ms(duration)), legacy)

\* scheduleCleanup's handler: oscillator.onended = () => activeOscillators.delete(id)
OnEnded(id) ==
    /\ id \in pendingEnded
    /\ activeOscillators' = MapDelete(activeOscillators, id)
    /\ pendingEnded' = pendingEnded \ {id}
    /\ generators' = Sweep(generators, pendingEnded', activeOscillators')
    /\ onlyTriggers' = FALSE
    /\ last' = Call("onended",
                    IF MapHas(activeOscillators, id) THEN "deleted" ELSE "absent",
                    FALSE, FALSE, FALSE)
    /\ UNCHANGED <<engineVars, ambientVars, otherVars, idCounter>>

\* stopAll: forEach entry try-stop its oscillators, then clear().
RECURSIVE StopEach(_, _, _, _)
StopEach(map, gens, pend, legacy) ==
    IF map = <<>>
    THEN [gens |-> gens, pend |-> pend, caught |-> FALSE, escaped |-> FALSE]
    ELSE LET r == ForceStop(map[1], gens, pend, legacy)
         IN  IF r.escaped
             THEN [gens |-> r.gens, pend |-> r.pend, caught |-> FALSE, escaped |-> TRUE]
             ELSE LET rest == StopEach(Tail(map), r.gens, r.pend, legacy)
                  IN  [rest EXCEPT !.caught = r.caught \/ @]

\* Variant: the oscillators are stopped and the Map is left to the handlers.
StopAllNoClear(legacy) ==
    /\ LET r == StopEach(activeOscillators, generators, pendingEnded, legacy)
       IN  /\ activeOscillators' = activeOscillators
           /\ pendingEnded' = r.pend
           /\ generators' = Sweep(r.gens, r.pend, activeOscillators')
           /\ last' = Call("stopAll", IF r.escaped THEN "InvalidStateError" ELSE "void",
                           r.escaped, r.caught, FALSE)
    /\ onlyTriggers' = FALSE
    /\ UNCHANGED <<engineVars, ambientVars, otherVars, idCounter>>

\* Variant: stopAll silences the ambient bed as well.
StopAllAndAmbient(legacy) ==
    /\ LET r == StopEach(activeOscillators, generators, pendingEnded, legacy)
       IN  /\ activeOscillators' = IF r.escaped THEN activeOscillators ELSE <<>>
           /\ pendingEnded' = r.pend
           /\ generators' = Sweep(r.gens, r.pend, activeOscillators')
           /\ last' = Call("stopAll", IF r.escaped THEN "InvalidStateError" ELSE "void",
                           r.escaped, r.caught, FALSE)
    /\ onlyTriggers' = FALSE
    /\ ambientSource' = "null"
    /\ ambientGain' = "null"
    /\ isAmbientPlaying' = FALSE
    /\ UNCHANGED <<engineVars, timers, otherVars, idCounter>>

StopAll(legacy) ==
    /\ LET r == StopEach(activeOscillators, generators, pendingEnded, legacy)
       IN  /\ activeOscillators' = IF r.escaped THEN activeOscillators ELSE <<>>
           /\ pendingEnded' = r.pend
           /\ generators' = Sweep(r.gens, r.pend, activeOscillators')
           /\ last' = Call("stopAll", IF r.escaped THEN "InvalidStateError" ELSE "void",
                           r.escaped, r.caught, FALSE)
    /\ onlyTriggers' = FALSE
    /\ UNCHANGED <<engineVars, ambientVars, otherVars, idCounter>>

----------------------------------------------------------------------------
\* The clock advances by one tick: scheduled stops come nearer, registered
\* oscillators that reach their stop time end and their 'ended' event is queued,
\* timers come nearer to firing.
Elapse(t) == Max2(0, t - TickMs)

\* setTargetAtTime: v(t) = target + (v0 - target) * e^(-(t - t0) / timeConstant),
\* over one tick, in thousandths.
Approach(value, target) ==
    IF value >= target
    THEN target + ((value - target) * DecayPerTick) \div 1000
    ELSE target - ((target - value) * DecayPerTick) \div 1000

Tick ==
    /\ \/ \E id \in DOMAIN generators : generators[id].reg > 0 \/ generators[id].aux > 0
       \/ \E i \in DOMAIN timers : timers[i] > 0
       \/ masterValue # masterTarget
    /\ masterValue' = Approach(masterValue, masterTarget)
    /\ LET aged == [id \in DOMAIN generators |->
                       [generators[id] EXCEPT !.reg = Elapse(@), !.aux = Elapse(@)]]
           ended == {id \in DOMAIN generators :
                        /\ generators[id].reg > 0
                        /\ aged[id].reg = 0
                        /\ generators[id].cleanup}
       IN  /\ pendingEnded' = pendingEnded \cup ended
           /\ generators' = Sweep(aged, pendingEnded', activeOscillators)
    /\ timers' = [i \in DOMAIN timers |-> Elapse(timers[i])]
    /\ last' = Call("tick", "void", FALSE, FALSE, FALSE)
    /\ UNCHANGED <<graphVars, masterTarget, activeOscillators, idCounter, onlyTriggers, otherVars,
                   ambientSource, ambientGain, isAmbientPlaying>>

----------------------------------------------------------------------------
\* Variant: startAmbient without the isAmbientPlaying guard.
startAmbientNoGuard ==
    IF audioContext = 0
    THEN [source |-> ambientSource, gain |-> ambientGain, playing |-> isAmbientPlaying,
          err |-> FALSE, created |-> FALSE]
    ELSE IF ~CanConnect
    THEN [source |-> "created", gain |-> "silent", playing |-> isAmbientPlaying,
          err |-> TRUE, created |-> TRUE]
    ELSE [source |-> "started", gain |-> "fadeIn", playing |-> TRUE,
          err |-> FALSE, created |-> TRUE]

\* The ambient bed.  startAmbient's outcome, as the new values of the three
\* fields and the way the call ends.
startAmbient ==
    IF isAmbientPlaying \/ audioContext = 0
    THEN [source |-> ambientSource, gain |-> ambientGain, playing |-> isAmbientPlaying,
          err |-> FALSE, created |-> FALSE]
    ELSE IF ~CanConnect
    THEN \* this.ambientGain.connect(this.reverbNode) throws before start()
         [source |-> "created", gain |-> "silent", playing |-> isAmbientPlaying,
          err |-> TRUE, created |-> TRUE]
    ELSE [source |-> "started", gain |-> "fadeIn", playing |-> TRUE,
          err |-> FALSE, created |-> TRUE]

\* Variant: the fade-out is scheduled, the teardown is not.
stopAmbientNoTimer ==
    IF ~isAmbientPlaying \/ ambientGain = "null"
    THEN [gain |-> ambientGain, timer |-> FALSE]
    ELSE [gain |-> "fadeOut", timer |-> FALSE]

\* stopAmbient's outcome: the gain's automation and whether a timer is set.
stopAmbient ==
    IF ~isAmbientPlaying \/ ambientGain = "null"
    THEN [gain |-> ambientGain, timer |-> FALSE]
    ELSE [gain |-> "fadeOut", timer |-> TRUE]

StartAmbient ==
    /\ LET r == startAmbient IN
       /\ ambientSource' = r.source
       /\ ambientGain' = r.gain
       /\ isAmbientPlaying' = r.playing
       /\ last' = Call("startAmbient", IF r.err THEN "GraphError" ELSE "void",
                       r.err, FALSE, r.created)
    /\ UNCHANGED <<engineVars, voiceVars, otherVars, timers>>

StopAmbient ==
    /\ LET r == stopAmbient IN
       /\ r.timer => Len(timers) < MaxTimers
       /\ ambientGain' = r.gain
       /\ timers' = IF r.timer THEN Append(timers, FadeTimeoutMs) ELSE timers
       /\ last' = Call("stopAmbient", "void", FALSE, FALSE, FALSE)
    /\ UNCHANGED <<engineVars, voiceVars, otherVars, ambientSource, isAmbientPlaying>>

ToggleAmbient ==
    /\ IF isAmbientPlaying
       THEN LET r == stopAmbient IN
            /\ r.timer => Len(timers) < MaxTimers
            /\ ambientGain' = r.gain
            /\ timers' = IF r.timer THEN Append(timers, FadeTimeoutMs) ELSE timers
            /\ last' = Call("toggleAmbient", "false", FALSE, FALSE, FALSE)
            /\ UNCHANGED <<ambientSource, isAmbientPlaying>>
       ELSE LET r == startAmbient IN
            /\ ambientSource' = r.source
            /\ ambientGain' = r.gain
            /\ isAmbientPlaying' = r.playing
            /\ last' = Call("toggleAmbient", IF r.err THEN "GraphError" ELSE "true",
                            r.err, FALSE, r.created)
            /\ UNCHANGED timers
    /\ UNCHANGED <<engineVars, voiceVars, otherVars>>

\* ambientSource.stop() in the timer callback throws when the source was never
\* started; the callback catches it.
SourceStopThrows == ambientSource = "created"

\* The callback stopAmbient hands to setTimeout.
TimerFire ==
    /\ timers # <<>>
    /\ Head(timers) = 0
    /\ timers' = Tail(timers)
    /\ ambientSource' = "null"
    /\ ambientGain' = "null"
    /\ isAmbientPlaying' = FALSE
    /\ last' = Call("timer", "void", FALSE,
                    ambientSource # "null" /\ SourceStopThrows, FALSE)
    /\ UNCHANGED <<engineVars, voiceVars, otherVars>>

----------------------------------------------------------------------------
(***************************************************************************)
(* initialize() as the async function it is: a call is suspended at        *)
(* `await this.audioContext.resume()` and at `await this.createReverb()`,  *)
(* and another click handler's call may run in between.  calls[p] keeps    *)
(* where call p stands, the context it constructed, the context of the     *)
(* convolver it awaits, and whether it has assigned the nodes.             *)
(***************************************************************************)
\* this.masterGain = this.audioContext.createGain(); gain.value = 0.7;
\* createReverb() builds its convolver from this.audioContext: both read the
\* field as it is when the call resumes.
InitBuildMaster(p, ctx) ==
    /\ masterGain' = audioContext'
    /\ masterValue' = InitialGain
    /\ masterTarget' = InitialGain
    /\ calls' = [calls EXCEPT ![p] = [pc |-> "awaitReverb", ctx |-> ctx,
                                      conv |-> audioContext', built |-> FALSE]]

\* Up to the first await.  A new context starts suspended or running, as the
\* autoplay policy decides.
InitBegin(p, state) ==
    /\ calls[p].pc = "idle"
    /\ IF AlreadyInitialized
       THEN /\ calls' = [calls EXCEPT ![p].pc = "done"]
            /\ last' = Call("initialize", "true", FALSE, FALSE, FALSE)
            /\ UNCHANGED engineVars
       ELSE /\ ctxCounter < MaxCtx
            /\ ctxCounter' = ctxCounter + 1
            /\ audioContext' = ctxCounter + 1
            /\ contextState' = state
            /\ last' = Call("initialize.await", "pending", FALSE, FALSE, TRUE)
            /\ IF state = "suspended"
               THEN /\ calls' = [calls EXCEPT ![p] = [pc |-> "awaitResume",
                                   ctx |-> ctxCounter + 1, conv |-> 0, built |-> FALSE]]
                    /\ UNCHANGED <<masterGain, volumeVars>>
               ELSE InitBuildMaster(p, ctxCounter + 1)
            /\ UNCHANGED <<reverbNode, analyser, isInitialized, wired>>
    /\ UNCHANGED <<voiceVars, ambientVars, maxPolyphony, evict, playStyles, probe>>

\* The resume() promise of the call's own context settles and the call goes on
\* to the second await.
InitResumed(p) ==
    /\ calls[p].pc = "awaitResume"
    /\ contextState' = IF calls[p].ctx = audioContext THEN "running" ELSE contextState
    /\ UNCHANGED audioContext
    /\ InitBuildMaster(p, calls[p].ctx)
    /\ last' = Call("initialize.await", "pending", FALSE, FALSE, TRUE)
    /\ UNCHANGED <<reverbNode, analyser, isInitialized, ctxCounter, wired,
                   voiceVars, ambientVars, maxPolyphony, evict, playStyles, probe>>

\* The createReverb() promise settles: the nodes are assigned and connected;
\* connect() between nodes of different contexts throws and the catch returns
\* false.
InitReverbReady(p) ==
    /\ calls[p].pc = "awaitReverb"
    /\ reverbNode' = calls[p].conv
    /\ analyser' = audioContext
    /\ LET connected == calls[p].conv = audioContext /\ masterGain = audioContext IN
       /\ wired' = IF connected THEN audioContext ELSE wired
       /\ isInitialized' = (isInitialized \/ connected)
       /\ last' = Call("initialize", IF connected THEN "true" ELSE "false",
                       FALSE, ~connected, TRUE)
    /\ calls' = [calls EXCEPT ![p].pc = "done", ![p].built = TRUE]
    /\ UNCHANGED <<audioContext, masterGain, ctxCounter, contextState, volumeVars,
                   voiceVars, ambientVars, maxPolyphony, evict, playStyles, probe>>

\* The click handler that awaited the call has finished; the button can be
\* clicked again.
InitReturn(p) ==
    /\ calls[p].pc = "done"
    /\ calls' = [calls EXCEPT ![p] = NoCall]
    /\ last' = Call("handler", "void", FALSE, FALSE, FALSE)
    /\ UNCHANGED <<engineVars, voiceVars, ambientVars, maxPolyphony, evict, playStyles, probe>>

InitBeginStep == \E p \in Callers, state \in {"suspended", "running"} : InitBegin(p, state)
InitResumedStep == \E p \in Callers : InitResumed(p)
InitReverbReadyStep == \E p \in Callers : InitReverbReady(p)
InitReturnStep == \E p \in Callers : InitReturn(p)

\* The user agent suspends the running context (interruption, autoplay policy):
\* the state ensureAudioContext tests for.
PlatformSuspend ==
    /\ contextState = "running"
    /\ contextState' = "suspended"
    /\ last' = Call("suspend", "void", FALSE, FALSE, FALSE)
    /\ UNCHANGED <<audioContext, masterGain, reverbNode, analyser, isInitialized,
                   ctxCounter, wired, volumeVars, voiceVars, ambientVars, otherVars>>

\* Variant: the analyser is read without the null test.
getAnalyserDataNoGuard == "data"

\* getAnalyserData(): null without an analyser, else the frequency bins.
getAnalyserData == IF analyser = 0 THEN "null" ELSE "data"

GetAnalyserData ==
    /\ last' = Call("getAnalyserData", getAnalyserData, FALSE, FALSE, FALSE)
    /\ UNCHANGED <<engineVars, voiceVars, ambientVars, otherVars>>

\* The levels the volume control sends, in thousandths.
Levels == {500, 1000}

\* Variant: the value is written to the parameter directly.
setMasterVolumeInstant(value) ==
    IF masterGain # 0
    THEN [value |-> value, target |-> value]
    ELSE [value |-> masterValue, target |-> masterTarget]

\* setMasterVolume(value): setTargetAtTime(value, currentTime, 0.1) when there
\* is a master gain; the current value is not written.
setMasterVolume(value) ==
    IF masterGain # 0
    THEN [value |-> masterValue, target |-> value]
    ELSE [value |-> masterValue, target |-> masterTarget]

SetMasterVolume(value) ==
    /\ LET r == setMasterVolume(value) IN
       /\ masterValue' = r.value
       /\ masterTarget' = r.target
    /\ last' = Call("setMasterVolume", "void", FALSE, FALSE, FALSE)
    /\ UNCHANGED <<graphVars, voiceVars, ambientVars, otherVars>>

SetMasterVolumeStep == \E value \in Levels : SetMasterVolume(value)

----------------------------------------------------------------------------
InitializeStep(failures) == \E failAt \in failures \cup {"none"} : Initialize(failAt)

CrystalBowlStep ==
    \E style \in StyleInputs("crystal"), d \in Durations, legacy \in BOOLEAN :
        playCrystalBowl(style, d, legacy)
TibetanBowlStep ==
    \E style \in StyleInputs("tibetan"), d \in Durations, legacy \in BOOLEAN :
        playTibetanBowl(style, d, legacy)
GongStep ==
    \E style \in StyleInputs("gong"), d \in Durations, legacy \in BOOLEAN :
        playGong(style, d, legacy)
DidgeridooStep ==
    \E style \in StyleInputs("didge"), d \in Durations, legacy \in BOOLEAN :
        playDidgeridoo(style, d, legacy)
PanFluteStep ==
    \E style \in StyleInputs("panflute"), d \in Durations, legacy \in BOOLEAN :
        playPanFlute(style, d, legacy)
HandpanStep ==
    \E style \in StyleInputs("handpan"), d \in Durations, legacy \in BOOLEAN :
        playHandpan(style, d, legacy)
HandpanRejectedStep == \E legacy \in BOOLEAN : playHandpanRejected(legacy)
OnEndedStep == \E id \in pendingEnded : OnEnded(id)
StopAllStep == \E legacy \in BOOLEAN : StopAll(legacy)

----------------------------------------------------------------------------
\* The app: the style buttons and the instrument handlers, which pass the
\* active style of their group to the engine.
GroupOf(type) == IF type \in {"didge", "panflute"} THEN "wind" ELSE type

\* The engine method the handlers of a family call.
TriggerOf(type) ==
    CASE type = "crystal"  -> "playCrystalBowl"
      [] type = "tibetan"  -> "playTibetanBowl"
      [] type = "gong"     -> "playGong"
      [] type = "didge"    -> "playDidgeridoo"
      [] type = "panflute" -> "playPanFlute"
      [] type = "handpan"  -> "playHandpan"

\* Variant: the switch also restarts the envelopes of the sounding voices.
SetPlayStyleRetune(group, style) ==
    /\ playStyles' = [playStyles EXCEPT ![group] = style]
    /\ generators' = [id \in DOMAIN generators |-> [generators[id] EXCEPT !.aux = 0]]
    /\ last' = Call("setPlayStyle", "void", FALSE, FALSE, FALSE)
    /\ UNCHANGED <<engineVars, ambientVars, maxPolyphony, evict, calls, probe,
                   activeOscillators, idCounter, pendingEnded, onlyTriggers>>

\* The click handler of a style button: playStyles[group] = style.
SetPlayStyle(group, style) ==
    /\ playStyles' = [playStyles EXCEPT ![group] = style]
    /\ last' = Call("setPlayStyle", "void", FALSE, FALSE, FALSE)
    /\ UNCHANGED <<engineVars, voiceVars, ambientVars, maxPolyphony, evict, calls, probe>>

\* The groups whose buttons are exercised.
StyleGroups == {"crystal", "handpan"}

SetPlayStyleStep ==
    \E type \in {t \in Families : GroupOf(t) \in StyleGroups} :
        \E style \in StyleInputs(type) : SetPlayStyle(GroupOf(type), style)

AppCrystalBowl ==
    \E d \in Durations, legacy \in BOOLEAN :
        playCrystalBowl(playStyles[GroupOf("crystal")], d, legacy)
AppHandpan ==
    \E d \in Durations, legacy \in BOOLEAN :
        playHandpan(playStyles[GroupOf("handpan")], d, legacy)

NextStyles ==
    \/ InitializeStep({})
    \/ SetPlayStyleStep
    \/ AppCrystalBowl
    \/ AppHandpan
    \/ OnEndedStep
    \/ Tick

----------------------------------------------------------------------------
\* The synthesis of a trigger on its own: the generators it creates and lists,
\* the curves it schedules and the exponential ramps among them, for a family,
\* a style, a duration, a frequency and an outcome of Math.random().
ProbeDurations == {1, 2, 4, 5, 8, 10, 15}

Synthesize(type, style, duration, frequency, rand) ==
    /\ probe' = [type |-> type, style |-> style, duration |-> duration,
                 frequency |-> frequency,
                 generators |-> GeneratorsOf(type, style, Ms(duration)),
                 curves |-> CurvesOf(type, style, Ms(duration)),
                 ramps |-> RampsOf(SchedulesOf(type, style, Ms(duration),
                                               frequency, rand))]
    /\ last' = Call("synthesize", "void", FALSE, FALSE, FALSE)
    /\ UNCHANGED <<engineVars, voiceVars, ambientVars, maxPolyphony, evict, calls, playStyles>>

SynthesizeStep ==
    \E type \in Families :
        \E style \in StyleInputs(type), duration \in ProbeDurations,
           frequency \in Frequencies, rand \in Randoms :
            Synthesize(type, style, duration, frequency, rand)

NextSynth == SynthesizeStep

TriggerStep ==
    \/ CrystalBowlStep
    \/ TibetanBowlStep
    \/ GongStep
    \/ DidgeridooStep
    \/ PanFluteStep
    \/ HandpanStep

NextVoices ==
    \/ InitializeStep({"context"})
    \/ CrystalBowlStep
    \/ TibetanBowlStep
    \/ GongStep
    \/ DidgeridooStep
    \/ PanFluteStep
    \/ HandpanStep
    \/ OnEndedStep
    \/ StopAllStep
    \/ Tick

\* The operations that stop generators, with one trigger standing for the six
\* (enforcePolyphony is the same call in each).
NextStops ==
    \/ InitializeStep(InitFailures)
    \/ HandpanStep
    \/ OnEndedStep
    \/ StopAllStep
    \/ StartAmbient
    \/ StopAmbient
    \/ TimerFire
    \/ Tick

\* Triggers that succeed and triggers that raise.
NextErrors ==
    \/ InitializeStep({"context"})
    \/ HandpanStep
    \/ HandpanRejectedStep
    \/ OnEndedStep
    \/ Tick

\* Foreground voices and the ambient bed side by side.
NextFrame ==
    \/ InitializeStep({})
    \/ HandpanStep
    \/ OnEndedStep
    \/ StopAllStep
    \/ StartAmbient
    \/ StopAmbient
    \/ ToggleAmbient
    \/ TimerFire
    \/ Tick

\* enforcePolyphony() followed through its loop, between whole handlers.
NextLoop ==
    \/ evict.pc = "idle" /\ InitializeStep({})
    \/ evict.pc = "idle" /\ HandpanStep
    \/ evict.pc = "idle" /\ OnEndedStep
    \/ evict.pc = "idle" /\ Tick
    \/ EnforceBeginStep
    \/ EnforceIterate
    \/ EnforceExit

\* The engine's set-up and its controls.
NextEngine ==
    \/ InitializeStep(InitFailures)
    \/ PlatformSuspend
    \/ GetAnalyserData
    \/ SetMasterVolumeStep
    \/ ToggleAmbient
    \/ TimerFire
    \/ Tick

\* Overlapping initialize() calls of the click handlers.
NextOverlap ==
    \/ InitBeginStep
    \/ InitResumedStep
    \/ InitReverbReadyStep
    \/ InitReturnStep
    \/ SetMasterVolumeStep
    \/ Tick

NextAmbient ==
    \/ InitializeStep(InitFailures)
    \/ StartAmbient
    \/ StopAmbient
    \/ ToggleAmbient
    \/ TimerFire
    \/ Tick

Next ==
    \/ InitializeStep(InitFailures)
    \/ TriggerStep
    \/ OnEndedStep
    \/ StopAllStep
    \/ StartAmbient
    \/ StopAmbient
    \/ ToggleAmbient
    \/ TimerFire
    \/ Tick

Spec == Init /\ [][Next]_vars
SpecVoices == Init /\ [][NextVoices]_vars
SpecAmbient == Init /\ [][NextAmbient]_vars
SpecStops == Init /\ [][NextStops]_vars
SpecEngine == Init /\ [][NextEngine]_vars
SpecOverlap == Init /\ [][NextOverlap]_vars
SpecStyles == Init /\ [][NextStyles]_vars
SpecSynth == Init /\ [][NextSynth]_vars
SpecErrors == Init /\ [][NextErrors]_vars
SpecFrame == Init /\ [][NextFrame]_vars
SpecLoop == Init /\ [][NextLoop]_vars

\* The render clock advances and queued 'ended' events and due timers are
\* dispatched by the event loop.
Fairness ==
    /\ WF_vars(Tick)
    /\ WF_vars(TimerFire)
    /\ \A id \in 1..MaxId : WF_vars(OnEnded(id))

\* A call that has started goes on executing.
LoopFairness == WF_vars(EnforceIterate) /\ WF_vars(EnforceExit)

FairSpecVoices == SpecVoices /\ Fairness
FairSpecAmbient == SpecAmbient /\ Fairness
FairSpecLoop == SpecLoop /\ LoopFairness

----------------------------------------------------------------------------
PlayOps == {"playCrystalBowl", "playTibetanBowl", "playGong",
            "playDidgeridoo", "playPanFlute", "playHandpan"}

\* A step in which a trigger admitted a voice.
Admitted == last'.op \in PlayOps /\ last'.ret = "id" /\ idCounter' = idCounter + 1

\* The k most recently generated ids, oldest first.
RecentIds(k) == [i \in 1..k |-> idCounter - k + i]

\* C1: in every reachable state the live-voice set holds at most maxPolyphony
\* entries.
C1_PolyphonyBound == Len(activeOscillators) <= maxPolyphony

\* A trigger has just evicted a voice to admit a new one, and the set is full.
C1_Witness ==
    /\ last.op \in PlayOps
    /\ last.ret = "id"
    /\ Len(activeOscillators) = maxPolyphony
    /\ idCounter > maxPolyphony

\* C2: a trigger on a full set leaves it full, removes the earliest registered
\* voice and admits the new one; as long as only triggers have run, the set
\* holds exactly the most recently triggered voices, up to the cap.
C2_EvictsOldest ==
    /\ [][(Admitted /\ Len(activeOscillators) = maxPolyphony)
            => activeOscillators' = Append(Tail(activeOscillators), idCounter')]_vars
    /\ [](onlyTriggers =>
            activeOscillators = RecentIds(Min2(idCounter, maxPolyphony)))

\* Two more voices than the cap were triggered with no completion between.
C2_Witness ==
    /\ onlyTriggers
    /\ idCounter >= maxPolyphony + 2
    /\ activeOscillators = RecentIds(maxPolyphony)

\* C3: right after stopAll the live-voice set is empty.
C3_StopAllEmpties == last.op = "stopAll" => activeOscillators = <<>>

\* stopAll ran over several voices, one of them already ended and throwing on stop.
C3_Witness ==
    /\ last.op = "stopAll"
    /\ last.caught
    /\ Cardinality({id \in DOMAIN generators : generators[id].forced}) >= 2
    /\ activeOscillators = <<>>

\* C4: a voice leaves the live-voice set at most once: the completion callback
\* of a voice that is no longer in the set raises nothing and changes nothing,
\* the callback of a voice still in the set removes that voice alone, and a
\* voice that has left never comes back.
C4_RemovalOnce ==
    /\ [][last'.op = "onended" =>
            /\ ~last'.err
            /\ \E id \in pendingEnded \ pendingEnded' :
                   IF MapHas(activeOscillators, id)
                   THEN /\ Len(activeOscillators') = Len(activeOscillators) - 1
                        /\ ~MapHas(activeOscillators', id)
                   ELSE activeOscillators' = activeOscillators]_vars
    /\ [][\A id \in 1..idCounter :
            ~MapHas(activeOscillators, id) => ~MapHas(activeOscillators', id)]_vars

\* The callback of a voice that was force-stopped earlier has just run, with
\* other voices live.
C4_Witness ==
    /\ last.op = "onended"
    /\ last.ret = "absent"
    /\ activeOscillators # <<>>

\* C5: under fairness every voice in the live-voice set eventually leaves it.
C5_VoiceLeaves ==
    \A id \in 1..MaxId :
        MapHas(activeOscillators, id) ~> ~MapHas(activeOscillators, id)

\* A voice has been removed by its own completion callback.
C5_Witness == last.op = "onended" /\ last.ret = "deleted"

\* C6: once a voice has been force-stopped, none of the generators started for
\* it is still running.
C6_ForceStopStopsAll ==
    \A id \in DOMAIN generators :
        generators[id].forced => generators[id].reg = 0 /\ generators[id].aux = 0

\* The ambient bed is Idle: not playing, no source, no gain node.
AmbientIdle ==
    /\ ~isAmbientPlaying
    /\ ambientSource = "null"
    /\ ambientGain = "null"

\* C7: no call ends with the error of stopping an ended generator; a voice that
\* was force-stopped is out of the live-voice set, stopAll leaves the set empty,
\* stopAmbient raises nothing and its timer callback raises nothing and leaves
\* the ambient bed Idle.
C7_StopErrorsSwallowed ==
    /\ last.ret # "InvalidStateError"
    /\ \A id \in DOMAIN generators :
           generators[id].forced => ~MapHas(activeOscillators, id)
    /\ last.op = "stopAll" => ~last.err /\ activeOscillators = <<>>
    /\ last.op = "stopAmbient" => ~last.err
    /\ last.op = "timer" => ~last.err /\ AmbientIdle

\* The timer callback has just caught the error of stopping its source, and a
\* voice force-stopped earlier is out of the set with its callback pending.
C7_Witness ==
    /\ last.op = "timer"
    /\ last.caught
    /\ AmbientIdle
    /\ \E id \in pendingEnded :
           generators[id].forced /\ ~MapHas(activeOscillators, id)

\* toggleAmbient has just returned false right after a toggleAmbient that
\* returned true, on an initialized engine.
DoubleToggle ==
    /\ isInitialized
    /\ last.op = "toggleAmbient"
    /\ last.ret = "false"
    /\ last.prev = <<"toggleAmbient", "true">>

\* C8: on an initialized engine, toggleAmbient twice in direct succession is
\* followed, once the fade timer has fired, by the Idle ambient state.
C8_DoubleToggleIdle == DoubleToggle ~> AmbientIdle

\* The second toggle has just returned, the bed fading out, its timer pending.
C8_Witness ==
    /\ DoubleToggle
    /\ isAmbientPlaying
    /\ ambientGain = "fadeOut"
    /\ timers # <<>>

\* C9: toggleAmbient returns true only with the bed playing and not fading
\* out, and false only with the bed stopped or fading out.
C9_ToggleReturnsState ==
    last.op = "toggleAmbient" =>
        /\ last.ret = "true" => isAmbientPlaying /\ ambientGain = "fadeIn"
        /\ last.ret = "false" => ~isAmbientPlaying \/ ambientGain = "fadeOut"

\* C10: startAmbient called while the bed is playing creates no node and
\* leaves ambientSource, ambientGain and isAmbientPlaying as they were.
C10_StartWhilePlayingNoOp ==
    [][(last'.op = "startAmbient" /\ isAmbientPlaying) =>
          /\ ~last'.created
          /\ ~last'.err
          /\ UNCHANGED <<ambientSource, ambientGain, isAmbientPlaying>>]_vars

\* startAmbient has just returned on a bed that is fading in.
C10_Witness ==
    /\ last.op = "startAmbient"
    /\ ~last.created
    /\ isAmbientPlaying
    /\ ambientGain = "fadeIn"

\* C11: once initialize() has returned true, every later call returns true,
\* creates nothing and leaves the context, the reverb, the analyser and the
\* master gain as they were.
C11_InitializeIdempotent ==
    /\ [][(last'.op = "initialize" /\ isInitialized) =>
            /\ last'.ret = "true"
            /\ ~last'.err
            /\ ~last'.created
            /\ UNCHANGED <<audioContext, reverbNode, analyser, masterGain,
                           ctxCounter, wired, isInitialized>>]_vars
    /\ [][isInitialized => isInitialized']_vars

\* initialize() has just returned true on an engine that was initialized already.
C11_Witness ==
    /\ last.op = "initialize"
    /\ last.ret = "true"
    /\ ~last.created
    /\ isInitialized

\* C12: when initialize() returns true the context is running, also when the
\* engine was initialized already and the context had been suspended since.
C12_InitializeResumes ==
    (last.op = "initialize" /\ last.ret = "true") => contextState = "running"

\* The reverb -> analyser -> master gain -> destination chain of the current context.
CompleteGraph ==
    /\ audioContext # 0
    /\ reverbNode = audioContext
    /\ analyser = audioContext
    /\ masterGain = audioContext
    /\ wired = audioContext

\* C14: initialize() never raises; when it has returned false the engine is not
\* initialized; when it has returned true, after earlier failures too, the
\* engine is initialized and holds a complete graph on one context.
C14_InitFailureRecoverable ==
    last.op = "initialize" =>
        /\ ~last.err
        /\ last.ret \in {"true", "false"}
        /\ last.ret = "false" => ~isInitialized
        /\ last.ret = "true" => isInitialized /\ CompleteGraph

\* initialize() has just succeeded on its second context, after a call that failed.
C14_Witness ==
    /\ last.op = "initialize"
    /\ last.ret = "true"
    /\ last.created
    /\ ctxCounter = 2
    /\ CompleteGraph

\* C16: getAnalyserData returns null whenever there is no analyser, raises
\* nothing and leaves the engine, the live-voice set, the id counter, the
\* ambient bed and the master gain as they were.
C16_AnalyserReadOnly ==
    [][last'.op = "getAnalyserData" =>
          /\ analyser = 0 => last'.ret = "null"
          /\ ~last'.err
          /\ ~last'.created
          /\ UNCHANGED <<engineVars, voiceVars, ambientVars>>]_vars

\* getAnalyserData has just returned null on an engine whose initialization
\* failed after the master gain was created and before the analyser was.
C16_Witness ==
    /\ last.op = "getAnalyserData"
    /\ last.ret = "null"
    /\ masterGain # 0
    /\ analyser = 0

\* C17: setMasterVolume leaves the gain's current value as it is and only sets
\* the target (nothing at all without a master gain); as time passes the value
\* stays between where it was and the latest target and comes nearer to it.
C17_VolumeSmoothed ==
    /\ [][last'.op = "setMasterVolume" =>
            /\ masterValue' = masterValue
            /\ ~last'.err
            /\ masterGain = 0 => UNCHANGED volumeVars]_vars
    /\ [][last'.op = "tick" =>
            /\ masterTarget' = masterTarget
            /\ Min2(masterValue, masterTarget) <= masterValue'
            /\ masterValue' <= Max2(masterValue, masterTarget)
            /\ masterValue # masterTarget =>
                   masterValue' # masterValue]_vars

\* setMasterVolume(1.0) has just returned right after setMasterVolume(0.5):
\* the value is still the initial 0.7.
C17_Witness ==
    /\ last.op = "setMasterVolume"
    /\ last.prev = <<"setMasterVolume", 500>>
    /\ masterTarget = 1000
    /\ masterValue = InitialGain

\* C13: however initialize() calls overlap, at most one context is
\* constructed, at most one call assigns the reverb, analyser and master gain
\* nodes, and the nodes the engine holds belong to its context.
C13_GraphBuiltOnce ==
    /\ ctxCounter <= 1
    /\ Cardinality({p \in Callers : calls[p].built}) <= 1
    /\ \A node \in {masterGain, reverbNode, analyser} : node \in {0, audioContext}

\* C15: on an initialized engine a trigger whose style tag is none of its
\* family's styles raises nothing, creates no node and admits no voice.
C15_UnknownStyleNoOp ==
    \A type \in Families :
        (/\ last.op = TriggerOf(type)
         /\ isInitialized
         /\ playStyles[GroupOf(type)] \notin StylesOf(type))
        => /\ ~last.err
           /\ ~last.created
           /\ ~MapHas(activeOscillators, idCounter)

\* The generators a trigger of the family starts for a style.
VoiceOf(type, style, d) ==
    [reg     |-> RegisteredStop(GeneratorsOf(type, style, Ms(d))),
     aux     |-> UnregisteredStop(GeneratorsOf(type, style, Ms(d))),
     forced  |-> FALSE,
     cleanup |-> TRUE]

\* C18: a style switch changes playStyles[group] alone: the live-voice set and
\* the generators and stop times of the voices already started are as they
\* were; every group has one active style; a voice admitted afterwards is the
\* one its family's synthesis gives for the style active when it is triggered.
C18_StyleSwitchFrame ==
    /\ [][last'.op = "setPlayStyle" =>
            UNCHANGED <<voiceVars, engineVars, ambientVars>>]_vars
    /\ [](DOMAIN playStyles = Groups)
    /\ [][\A type \in Families :
            (last'.op = TriggerOf(type) /\ last'.ret = "id") =>
                /\ \E d \in Durations :
                       generators'[idCounter'] =
                           VoiceOf(type, playStyles[GroupOf(type)], d)
                /\ \A id \in DOMAIN generators :
                       (MapHas(activeOscillators', id) /\ ~generators'[id].forced)
                           => generators'[id] = generators[id]]_vars

\* The style of the crystal bowls has just been switched to rim singing while
\* a voice struck with another style is sounding.
C18_Witness ==
    /\ last.op = "setPlayStyle"
    /\ playStyles["crystal"] = "rim"
    /\ \E id \in DOMAIN generators :
           /\ MapHas(activeOscillators, id)
           /\ generators[id].reg > 0
           /\ generators[id].aux = 0

\* C19: for every family and every style of it, the oscillators list stored
\* for the voice is as long as the number of signal-path oscillators the
\* trigger creates (modulating oscillators and noise sources left aside).
C19_OwnedEqualsCreated ==
    (probe.type \in Families /\ probe.style \in StylesOf(probe.type)) =>
        RegisteredCount(probe.generators) = OscillatorCount(probe.generators)

NonDecreasing(times) ==
    \A i \in 1..(Len(times) - 1) : times[i] <= times[i + 1]

\* C20: for every family, every style of it and the family's default duration,
\* the event times of every curve are non-decreasing in the order of the calls
\* and every gain curve ends at a value above zero.
C20_CurvesOrderedPositive ==
    (/\ probe.type \in Families
     /\ probe.style \in StylesOf(probe.type)
     /\ probe.duration = DefaultDuration(probe.type)) =>
        \A c \in probe.curves :
            /\ NonDecreasing(c.times)
            /\ c.param = "gain" => c.final > 0

\* The duration a trigger works with, after the clamp of its style (ms).
EffectiveDuration(type, style, dur) ==
    IF type = "panflute" THEN PanFluteDuration(style, dur) ELSE dur

\* The time of the latest event of a curve.
LastBreakpoint(c) == SetMax({c.times[i] : i \in DOMAIN c.times})

\* C21: for every family, every style of it and every duration, the latest
\* event of each gain envelope the trigger schedules is at or before the
\* scheduled stop of the voice, now + duration.
C21_EnvelopeWithinDuration ==
    (probe.type \in Families /\ probe.style \in StylesOf(probe.type)) =>
        \A c \in probe.curves :
            c.param = "gain" =>
                LastBreakpoint(c) <=
                    EffectiveDuration(probe.type, probe.style, Ms(probe.duration))

\* C23: for every family and every style of it, every generator the trigger
\* creates is started at now and its stop is scheduled at now + duration, the
\* duration taken after the clamp of the style.
C23_StartNowStopAtDuration ==
    (probe.type \in Families /\ probe.style \in StylesOf(probe.type)) =>
        \A g \in probe.generators :
            /\ g.start = 0
            /\ g.stop = EffectiveDuration(probe.type, probe.style, Ms(probe.duration))

\* C22: for every family, every style of it, every partial, every frequency
\* and every duration, each exponential ramp the trigger schedules ends at a
\* value above zero and starts from a value above zero.
C22_ExponentialRampsPositive ==
    (probe.type \in Families /\ probe.style \in StylesOf(probe.type)) =>
        \A r \in probe.ramps : r.to > 0 /\ r.from > 0

\* A voice that was admitted and has not been evicted, stopped by stopAll or
\* completed: its generators were started, none was force-stopped, and its
\* oscillator is running or its completion callback is still to run.
AdmittedAndLive(id) ==
    /\ id \in DOMAIN generators
    /\ ~generators[id].forced
    /\ generators[id].reg > 0 \/ id \in pendingEnded

\* C24: whatever the interleaving of triggers, completion callbacks and
\* stopAll, the live-voice set holds exactly the voices admitted and not since
\* evicted, stopped or completed, each once, in the order of their admission.
C24_LiveSetExact ==
    /\ \A id \in 1..MaxId : MapHas(activeOscillators, id) <=> AdmittedAndLive(id)
    /\ \A i, j \in DOMAIN activeOscillators :
           i < j => activeOscillators[i] < activeOscillators[j]

\* A trigger has just evicted the oldest voice, whose callback is still to run,
\* and the set holds the two voices admitted after it.
C24_Witness ==
    /\ last.op \in PlayOps
    /\ Len(activeOscillators) = 2
    /\ \E id \in pendingEnded :
           generators[id].forced /\ id < activeOscillators[1]

\* C25: from a state where the bed started by toggleAmbient is playing and
\* fading in, every step other than a toggleAmbient or stopAmbient call leaves
\* it playing, its source started.
C25_BedStaysUntilToggled ==
    [][(/\ isInitialized
        /\ isAmbientPlaying
        /\ ambientGain = "fadeIn"
        /\ last'.op \notin {"toggleAmbient", "stopAmbient"})
       => (isAmbientPlaying' /\ ambientSource' = "started")]_vars

\* C26: in every reachable state the ambient source and the ambient gain are
\* non-null exactly when isAmbientPlaying is true, and a source that was
\* started belongs to a bed that is playing.
C26_AmbientFieldsAgree ==
    /\ ambientSource # "null" <=> isAmbientPlaying
    /\ ambientGain # "null" <=> isAmbientPlaying
    /\ ambientSource = "started" => isAmbientPlaying

\* C27: a trigger that raises an error leaves the live-voice set exactly as it
\* was before the call, whether or not the set was at the polyphony cap.
C27_FailedTriggerLeavesSet ==
    [][(last'.op \in PlayOps /\ last'.err) =>
          activeOscillators' = activeOscillators]_vars

\* The ids the engine has in use: keys of the Map, voices in the audio graph,
\* voices whose callback is pending.
IdsInUse == {activeOscillators[i] : i \in DOMAIN activeOscillators}
            \cup DOMAIN generators \cup pendingEnded

\* C28: the id counter never decreases and grows by one with every trigger
\* call; the id of an admitted voice is the new counter value and was never in
\* use before; no two entries of the live-voice set share an id; a completion
\* callback removes no voice but its own, also when it fires after its voice
\* was evicted.
C28_IdsNeverReused ==
    /\ [][idCounter' >= idCounter]_vars
    /\ [][last'.op \in PlayOps => idCounter' = idCounter + 1]_vars
    /\ [][Admitted =>
            /\ activeOscillators'[Len(activeOscillators')] = idCounter'
            /\ idCounter' \notin IdsInUse]_vars
    /\ [](/\ \A id \in IdsInUse : id <= idCounter
          /\ \A i, j \in DOMAIN activeOscillators :
                 activeOscillators[i] = activeOscillators[j] => i = j)
    /\ [][last'.op = "onended" =>
            \A id \in 1..MaxId :
                (MapHas(activeOscillators, id) /\ ~MapHas(activeOscillators', id))
                    => id \in pendingEnded \ pendingEnded']_vars

\* The callback of an evicted voice has just run late: the set holds the one
\* voice admitted last, and the id before it belongs to no voice any more.
C28_Witness ==
    /\ last.op = "onended"
    /\ last.ret = "absent"
    /\ idCounter >= 3
    /\ activeOscillators = <<idCounter>>
    /\ idCounter - 1 \notin DOMAIN generators

AmbientOps == {"startAmbient", "stopAmbient", "toggleAmbient"}

\* C30: a trigger, with the eviction it makes, and stopAll leave
\* isAmbientPlaying, ambientSource, ambientGain and the fade-out timers as they
\* were; startAmbient, stopAmbient and toggleAmbient leave the live-voice set,
\* the id counter and the voices' generators as they were; and with the bed
\* playing a trigger on a set below the cap evicts nothing.
C30_VoicesAndAmbientIndependent ==
    /\ [][last'.op \in PlayOps \cup {"stopAll"} => UNCHANGED ambientVars]_vars
    /\ [][last'.op \in AmbientOps =>
            UNCHANGED <<activeOscillators, idCounter, generators, pendingEnded>>]_vars
    /\ [][(Admitted /\ isAmbientPlaying /\ Len(activeOscillators) < maxPolyphony) =>
            activeOscillators' = Append(activeOscillators, idCounter')]_vars

\* stopAll has just run, two voices have been force-stopped, and the bed is
\* playing and fading in.
C30_Witness ==
    /\ last.op = "stopAll"
    /\ isAmbientPlaying
    /\ ambientSource = "started"
    /\ ambientGain = "fadeIn"
    /\ Cardinality({id \in DOMAIN generators : generators[id].forced}) >= 2

\* C29: a call of enforcePolyphony() always returns; each pass through its
\* loop is made with the set at or above the cap and removes exactly one
\* entry, the oldest; the call returns with the set below the cap and, if it
\* removed anything, just below it; on an empty set it removes nothing.
C29_EnforcePolyphonyTerminates ==
    /\ (evict.pc = "loop") ~> (evict.pc = "idle")
    /\ [][(evict.pc = "loop" /\ evict'.pc = "loop") =>
            /\ Len(activeOscillators) >= maxPolyphony
            /\ activeOscillators' = Tail(activeOscillators)]_vars
    /\ [][(evict.pc = "loop" /\ evict'.pc = "idle") =>
            /\ Len(activeOscillators) < maxPolyphony
            /\ last.op = "enforcePolyphony.loop" =>
                   Len(activeOscillators) = maxPolyphony - 1
            /\ UNCHANGED activeOscillators]_vars
    /\ [](evict.pc = "loop" => maxPolyphony >= 1)

\* The loop has just evicted the oldest of two voices and is about to test
\* its condition again.
C29_Witness ==
    /\ evict.pc = "loop"
    /\ last.op = "enforcePolyphony.loop"
    /\ maxPolyphony = 2
    /\ Len(activeOscillators) = 1

====
